---------------------------- MODULE Spec2Model ----------------------------
(***************************************************************************)
(* Matrix routines of dagology: longest_path_matrix (algorithms/dagsep.py  *)
(* and dagology/matrix/matrix_utils.py), transitive_completion,            *)
(* transitive_reduction, naive_spacelike_matrix, twolink_spacelike_matrix. *)
(*                                                                         *)
(* A matrix is a function on Idx(n) \X Idx(n), indices from 0 as in the    *)
(* source.  A[i,j] = 1 is an edge from j to i.  Python's None is the empty *)
(* sequence, an integer argument k is <<k>>.                               *)
(***************************************************************************)
EXTENDS Integers, Sequences, FiniteSets

\* Acyclic inputs have up to MaxN nodes, labelled along a topological order.
MaxN == 4
\* Acyclic inputs of up to MaxLabelN nodes come in every labelling.
MaxLabelN == 3
\* Arbitrary (possibly cyclic) 0/1 inputs have up to MaxCycN nodes.
MaxCycN == 2
\* Largest integer passed as dmax, or as the cap of transitive_reduction.
MaxDmax == 3
\* Largest landmark count k passed to naive_spacelike_matrix.
MaxK == 4
\* The loop of longest_path_matrix is followed while i <= MaxIter.
MaxIter == 7

VARIABLES
    N,        \* A.shape[0]
    A_,       \* the caller's matrix
    fn,       \* the function that was called
    pc,       \* "idle", "loop", "returned", "failed"
    call,     \* the optional arguments of the call, as the caller gave them
    dmax,     \* the local dmax (matrix_utils' longest_path_matrix rebinds None)
    i,        \* loop counter of the function running
    B,        \* longest_path_matrix: the current power of A
    LP,       \* the longest path matrix
    A_0,      \* transitive_completion / transitive_reduction: A_0
    A,        \* transitive_completion / transitive_reduction: A
    A_old,    \* transitive_completion: A_old
    A_diff,   \* transitive_completion: A_diff
    max_path, \* transitive_reduction: max_path
    red,      \* the value transitive_reduction returned
    ds2,      \* the separation matrix returned, its entries exact fractions
    execs     \* executions of the running loop's body so far

vars == <<N, A_, fn, pc, call, dmax, i, B, LP, A_0, A, A_old, A_diff, max_path,
          red, ds2, execs>>

-----------------------------------------------------------------------------
(* numpy on small dense matrices *)

None == <<>>
Some(x) == <<x>>
\* Python truthiness of an optional integer argument: None and 0 are false.
Truthy(arg) == arg # None /\ arg[1] # 0

Idx(n) == 0 .. (n - 1)
Pairs(n) == Idx(n) \X Idx(n)
Min(a, b) == IF a < b THEN a ELSE b
Max(a, b) == IF a > b THEN a ELSE b

\* np.zeros((N, N))
Zeros(n) == [p \in Pairs(n) |-> 0]

RECURSIVE DotSum(_, _, _, _, _)
DotSum(X, Y, r, c, m) ==
    IF m = 0 THEN 0 ELSE DotSum(X, Y, r, c, m - 1) + X[r, m - 1] * Y[m - 1, c]

\* np.dot(X, Y)
Dot(X, Y, n) == [p \in Pairs(n) |-> DotSum(X, Y, p[1], p[2], n)]

RECURSIVE SumUpTo(_, _, _)
SumUpTo(X, n, t) ==
    IF t = 0 THEN 0 ELSE SumUpTo(X, n, t - 1) + X[(t - 1) \div n, (t - 1) % n]

\* np.sum(X)
MatSum(X, n) == SumUpTo(X, n, n * n)

RECURSIVE MaxUpTo(_, _, _)
MaxUpTo(X, n, t) ==
    IF t = 1 THEN X[0, 0]
    ELSE Max(MaxUpTo(X, n, t - 1), X[(t - 1) \div n, (t - 1) % n])

\* np.max(X)
MatMax(X, n) == MaxUpTo(X, n, n * n)

\* np.sign(x)
Sign(x) == IF x > 0 THEN 1 ELSE IF x < 0 THEN -1 ELSE 0

RECURSIVE GCD(_, _)
GCD(a, b) == IF b = 0 THEN a ELSE GCD(b, a % b)
Abs(x) == IF x < 0 THEN -x ELSE x

\* The float a / b, kept exact: a fraction in lowest terms, b > 0.
Rat(a, b) == LET g == GCD(Abs(a), b) IN <<a \div g, b \div g>>

\* A matrix of integers as the matrix of floats it is in numpy.
Floats(X, n) == [p \in Pairs(n) |-> Rat(X[p], 1)]

-----------------------------------------------------------------------------
(* Inputs *)

LowerPairs(n) == {p \in Pairs(n) : p[1] > p[2]}

\* The DAGs on n nodes whose labels follow a topological order.
TopoDags(n) ==
    {[p \in Pairs(n) |-> IF p[1] > p[2] THEN f[p] ELSE 0] :
        f \in [LowerPairs(n) -> {0, 1}]}

Perms(n) == {f \in [Idx(n) -> Idx(n)] : \A x, y \in Idx(n) : f[x] = f[y] => x = y}

Relabel(X, f, n) == [p \in Pairs(n) |-> X[f[p[1]], f[p[2]]]]

\* Every 0/1 matrix on n nodes without a directed cycle.
Dags(n) == {Relabel(T, f, n) : T \in TopoDags(n), f \in Perms(n)}

\* Every 0/1 matrix on n nodes.
Matrices(n) == [Pairs(n) -> {0, 1}]

DagInputs ==
    UNION ({{<<n, X>> : X \in Dags(n)} : n \in 1 .. MaxLabelN}
           \cup {{<<n, X>> : X \in TopoDags(n)} : n \in 1 .. MaxN})
AnyInputs ==
    DagInputs \cup UNION {{<<n, X>> : X \in Matrices(n)} : n \in 1 .. MaxCycN}

DmaxArgs == {None} \cup {Some(x) : x \in 0 .. MaxDmax}

IdleWith(in, lp) ==
    /\ N = in[1]
    /\ A_ = in[2]
    /\ fn = "none"
    /\ pc = "idle"
    /\ call = [dmax |-> None, k |-> None, LP |-> None]
    /\ dmax = None
    /\ i = 0
    /\ B = Zeros(in[1])
    /\ LP = lp
    /\ A_0 = Zeros(in[1])
    /\ A = Zeros(in[1])
    /\ A_old = Zeros(in[1])
    /\ A_diff = FALSE
    /\ max_path = 0
    /\ red = Zeros(in[1])
    /\ ds2 = Floats(Zeros(in[1]), in[1])
    /\ execs = 0

Idle(in) == IdleWith(in, Zeros(in[1]))

-----------------------------------------------------------------------------
(* longest_path_matrix, dagsep.py 4-33 and matrix_utils.py 71-102 *)

LPM_Impls == {"dagsep.longest_path_matrix", "matrix_utils.longest_path_matrix"}

\* path_length = i * B, without np.sign
PathLength_NoSign(ii, X, n) == [p \in Pairs(n) |-> ii * X[p]]

\* path_exist = np.sign(B); path_length = i * path_exist
PathLength(ii, X, n) == [p \in Pairs(n) |-> ii * Sign(X[p])]

\* The maximum is computed and dropped: LP stays as it was.
Maximum_Discarded(X, Y, n) == X

\* np.maximum.reduce((X, Y))
Maximum(X, Y, n) == [p \in Pairs(n) |-> Max(X[p], Y[p])]

\* The test that returns LP from inside the loop, on the incremented i.
\* dagsep: if dmax and (i == dmax).  matrix_utils: if i == dmax.
LPM_Cutoff(impl, d, ii) ==
    IF impl = "dagsep.longest_path_matrix" THEN Truthy(d) /\ ii = d[1] ELSE ii = d[1]

\* matrix_utils: if dmax is None: dmax = N.  dagsep keeps the argument.
LPM_Dmax(impl, d, n) ==
    IF impl = "matrix_utils.longest_path_matrix" /\ d = None THEN Some(n) ELSE d

\* LP = np.maximum.reduce((LP, path_length))
LPM_Update(lp, ii, X, n) == Maximum(lp, PathLength(ii, X, n), n)

\* The value longest_path_matrix(X, d) returns, when its loop ends.
RECURSIVE LPM_Loop(_, _, _, _, _, _, _)
LPM_Loop(impl, d, X, n, lp, b, ii) ==
    IF MatSum(b, n) > 0
    THEN IF LPM_Cutoff(impl, d, ii + 1)
         THEN LPM_Update(lp, ii, b, n)
         ELSE LPM_Loop(impl, d, X, n, LPM_Update(lp, ii, b, n), Dot(b, X, n), ii + 1)
    ELSE lp

longest_path_matrix(impl, X, d, n) ==
    LPM_Loop(impl, LPM_Dmax(impl, d, n), X, n, Zeros(n), X, 1)

LPM_Call(impl, d) ==
    /\ pc = "idle"
    /\ fn' = impl
    /\ call' = [call EXCEPT !.dmax = d]
    /\ dmax' = LPM_Dmax(impl, d, N)
    /\ LP' = Zeros(N)
    /\ i' = 1
    /\ B' = A_
    /\ pc' = "loop"
    /\ UNCHANGED <<N, A_, A_0, A, A_old, A_diff, max_path, red, ds2, execs>>

\* One execution of the body of  while np.sum(B) > 0.
LPM_Body ==
    /\ pc = "loop"
    /\ fn \in LPM_Impls
    /\ MatSum(B, N) > 0
    /\ i <= MaxIter
    /\ LP' = LPM_Update(LP, i, B, N)
    /\ B' = Dot(B, A_, N)
    /\ i' = i + 1
    /\ execs' = execs + 1
    /\ pc' = IF LPM_Cutoff(fn, dmax, i + 1) THEN "returned" ELSE "loop"
    /\ UNCHANGED <<N, A_, fn, call, dmax, A_0, A, A_old, A_diff, max_path, red, ds2>>

\* The loop condition is false: return LP.
LPM_Return ==
    /\ pc = "loop"
    /\ fn \in LPM_Impls
    /\ ~(MatSum(B, N) > 0)
    /\ pc' = "returned"
    /\ UNCHANGED <<N, A_, fn, call, dmax, i, B, LP, A_0, A, A_old, A_diff,
                   max_path, red, ds2, execs>>

LPM_Next ==
    \/ \E impl \in LPM_Impls, d \in DmaxArgs : LPM_Call(impl, d)
    \/ LPM_Body
    \/ LPM_Return

\* longest_path_matrix on acyclic and on cyclic 0/1 inputs.
InitLP == \E in \in AnyInputs : Idle(in)
SpecLP == InitLP /\ [][LPM_Next]_vars

-----------------------------------------------------------------------------
(* transitive_completion, matrix_utils.py 27-43 *)

\* The step without A += A_0.
TC_Step_NoAdd(X, X0, n) ==
    [p \in Pairs(n) |->
        LET v == DotSum(X, X0, p[1], p[2], n)
        IN  IF v > 1 THEN 1 ELSE v]

\* A = np.dot(A, A_0); A += A_0; A[A>1.] = 1.
TC_Step(X, X0, n) ==
    [p \in Pairs(n) |->
        LET v == DotSum(X, X0, p[1], p[2], n) + X0[p]
        IN  IF v > 1 THEN 1 ELSE v]

\* transitive_completion(arg) is entered.
TC_Enter(arg) ==
    /\ fn' = "transitive_completion"
    /\ A' = arg
    /\ A_0' = arg
    /\ A_diff' = TRUE
    /\ i' = 0
    /\ execs' = 0
    /\ pc' = "loop"
    /\ UNCHANGED <<N, A_, call, dmax, B, LP, A_old, max_path, red, ds2>>

TC_Call ==
    /\ pc = "idle"
    /\ TC_Enter(A_)

\* One execution of the body of  while A_diff.  The assert comes after
\* the comparison and before i += 1; its failure leaves the function.
TC_Body ==
    /\ pc = "loop"
    /\ fn = "transitive_completion"
    /\ A_diff
    /\ A_old' = A
    /\ A' = TC_Step(A, A_0, N)
    /\ A_diff' = ~(A = TC_Step(A, A_0, N))
    /\ execs' = execs + 1
    /\ IF i < N
          THEN i' = i + 1 /\ pc' = "loop"
          ELSE i' = i /\ pc' = "failed"
    /\ UNCHANGED <<N, A_, fn, call, dmax, B, LP, A_0, max_path, red, ds2>>

TC_Return ==
    /\ pc = "loop"
    /\ fn = "transitive_completion"
    /\ ~A_diff
    /\ pc' = "returned"
    /\ UNCHANGED <<N, A_, fn, call, dmax, i, B, LP, A_0, A, A_old, A_diff,
                   max_path, red, ds2, execs>>

TC_Next ==
    \/ TC_Call
    \/ TC_Body
    \/ TC_Return

\* transitive_completion on acyclic and on cyclic 0/1 inputs.
InitTC == \E in \in AnyInputs : Idle(in)
SpecTC == InitTC /\ [][TC_Next]_vars

-----------------------------------------------------------------------------
(* transitive_reduction, matrix_utils.py 45-69 *)

\* np.dot(A, A) in place of np.dot(A, A_0).
TR_Product_Squared(X, X0, r, c, n) == DotSum(X, X, r, c, n)

\* A = np.dot(A, A_0) at the head of the loop body.
TR_Product(X, X0, r, c, n) == DotSum(X, X0, r, c, n)

\* A = np.dot(A, A_0); A = A_0 - A; A[A<1] = 0; A[A>1] = 1
TR_Step(X, X0, n) ==
    [p \in Pairs(n) |->
        LET v == X0[p] - TR_Product(X, X0, p[1], p[2], n)
        IN  IF v < 1 THEN 0 ELSE IF v > 1 THEN 1 ELSE v]

\* if LP: max_path = LP  else: max_path = N
TR_MaxPath(c, n) == IF Truthy(c) THEN c[1] ELSE n

TR_Call(c) ==
    /\ pc = "idle"
    /\ fn' = "transitive_reduction"
    /\ call' = [call EXCEPT !.LP = c]
    /\ A' = A_
    /\ A_0' = A_
    /\ max_path' = TR_MaxPath(c, N)
    /\ i' = 0
    /\ pc' = "loop"
    /\ UNCHANGED <<N, A_, dmax, B, LP, A_old, A_diff, red, ds2, execs>>

\* One execution of the body of  while i < max_path.
TR_Body ==
    /\ pc = "loop"
    /\ fn = "transitive_reduction"
    /\ i < max_path
    /\ A' = TR_Step(A, A_0, N)
    /\ i' = i + 1
    /\ execs' = execs + 1
    /\ UNCHANGED <<N, A_, fn, pc, call, dmax, B, LP, A_0, A_old, A_diff,
                   max_path, red, ds2>>

TR_Return ==
    /\ pc = "loop"
    /\ fn = "transitive_reduction"
    /\ ~(i < max_path)
    /\ red' = A
    /\ pc' = "returned"
    /\ UNCHANGED <<N, A_, fn, call, dmax, i, B, LP, A_0, A, A_old, A_diff,
                   max_path, ds2, execs>>

\* transitive_completion(transitive_reduction(A_, LP))
TC_CallOnReduction ==
    /\ pc = "returned"
    /\ fn = "transitive_reduction"
    /\ TC_Enter(red)

\* i, j, k of the relation X: X[i,k] and X[k,j] give X[i,j].
Closed(X, n) ==
    \A a, b, c \in Idx(n) : (X[a, c] = 1 /\ X[c, b] = 1) => X[a, b] = 1

ClosedDagInputs == {in \in DagInputs : Closed(in[2], in[1])}

TR_Next ==
    \/ \E c \in DmaxArgs : TR_Call(c)
    \/ TR_Body
    \/ TR_Return
    \/ TC_CallOnReduction
    \/ TC_Body
    \/ TC_Return

\* Reduction, then completion, of transitively closed acyclic inputs.
InitTR == \E in \in ClosedDagInputs : Idle(in)
SpecTR == InitTR /\ [][TR_Next]_vars

-----------------------------------------------------------------------------
(* naive_spacelike_matrix, dagsep.py 35-78 and matrix_utils.py 104-152;   *)
(* twolink_spacelike_matrix, dagsep.py 80-121                             *)

SetMin(S) == CHOOSE x \in S : \A y \in S : x <= y

RECURSIVE SetSum(_)
SetSum(S) == IF S = {} THEN 0 ELSE LET x == CHOOSE y \in S : TRUE IN x[2] + SetSum(S \ {x})

\* if dmax == None: dmax = np.max(LP)
Sep_Dmax(d, lp, n) == IF d = None THEN MatMax(lp, n) ELSE d[1]

\* ds = LP + LP.transpose(); ds2 = ds * ds * -1
Sep_Step1(lp, n) ==
    [p \in Pairs(n) |-> (lp[p] + lp[p[2], p[1]]) * (lp[p] + lp[p[2], p[1]]) * (-1)]

\* w_list = np.intersect1d(np.flatnonzero(LP[:,i]), np.flatnonzero(LP[:,j]))
Naive_w_list(lp, a, b, n) == {w \in Idx(n) : lp[w, a] # 0 /\ lp[w, b] # 0}

\* z_list = np.intersect1d(np.flatnonzero(LP[i,:]), np.flatnonzero(LP[j,:]))
Naive_z_list(lp, a, b, n) == {z \in Idx(n) : lp[a, z] # 0 /\ lp[b, z] # 0}

\* w_z = LP[z, w], the indices exchanged.
Naive_w_z_Swapped(lp, w, z) == lp[z, w]

\* w_z = LP[w, z]
Naive_w_z(lp, w, z) == lp[w, z]

\* sp_dist for the pair (i, j) = (a, b): when both lists are non-empty,
\* dmax lowered by min() to every positive w_z; dmax otherwise.
Naive_sp_dist(lp, d, a, b, n) ==
    LET w_list == Naive_w_list(lp, a, b, n)
        z_list == Naive_z_list(lp, a, b, n)
        w_zs == {Naive_w_z(lp, w, z) : w \in w_list, z \in z_list}
    IN  IF z_list # {} /\ w_list # {}
        THEN SetMin({d} \cup {v \in w_zs : v > 0})
        ELSE d

Naive_Impls == {"dagsep.naive_spacelike_matrix", "matrix_utils.naive_spacelike_matrix"}

\* The landmark bound taken one too small.
Naive_max_j_OffByOne(impl, kk, a) ==
    IF impl = "matrix_utils.naive_spacelike_matrix" /\ Truthy(kk)
    THEN Min(a, kk[1] - 1) ELSE a

\* The bound of the inner loop on j, for the row i = a.
\* dagsep: for j in range(N): if i > j.
\* matrix_utils: max_j = i; if k: max_j = np.min([i, k]); for j in range(max_j).
Naive_max_j(impl, kk, a) ==
    IF impl = "matrix_utils.naive_spacelike_matrix" /\ Truthy(kk)
    THEN Min(a, kk[1]) ELSE a

\* ds2 after the first t pairs (i, j) of the two nested loops, row by row.
RECURSIVE Naive_Loop(_, _, _, _, _, _)
Naive_Loop(impl, lp, d, kk, n, t) ==
    IF t = 0 THEN Sep_Step1(lp, n)
    ELSE LET prev == Naive_Loop(impl, lp, d, kk, n, t - 1)
             a == (t - 1) \div n
             b == (t - 1) % n
             sp_dist == Naive_sp_dist(lp, d, a, b, n)
         IN  IF b < Naive_max_j(impl, kk, a) /\ prev[a, b] = 0
             THEN [prev EXCEPT ![a, b] = sp_dist * sp_dist, ![b, a] = sp_dist * sp_dist]
             ELSE prev

naive_spacelike_matrix(impl, lp, d, kk, n) ==
    Naive_Loop(impl, lp, Sep_Dmax(d, lp, n), kk, n, n * n)

\* two_link_future = np.intersect1d(np.where(LP[:,i]==1)[0], np.where(LP[:,j]==1)[0])
TwoLink_two_link_future(lp, a, b, n) == {x \in Idx(n) : lp[x, a] = 1 /\ lp[x, b] = 1}

\* link_past = np.intersect1d(np.flatnonzero(LP[:,i]), np.flatnonzero(LP[:,j]))
TwoLink_link_past(lp, a, b, n) == {z \in Idx(n) : lp[z, a] # 0 /\ lp[z, b] # 0}

\* sp_dist for one w: dmax lowered by min() to every positive LP[w, z].
TwoLink_sp_dist(lp, d, w, link_past) ==
    SetMin({d} \cup {v \in {lp[w, z] : z \in link_past} : v > 0})

\* av_sp_dist for the pair (i, j) = (a, b), as an exact fraction.
TwoLink_av_sp_dist(lp, d, a, b, n) ==
    LET two_link_future == TwoLink_two_link_future(lp, a, b, n)
        link_past == TwoLink_link_past(lp, a, b, n)
        c == SetSum({<<w, TwoLink_sp_dist(lp, d, w, link_past)>> : w \in two_link_future})
    IN  IF two_link_future # {}
        THEN Rat(c, Cardinality(two_link_future))
        ELSE Rat(d, 1)

\* av_sp_dist**2
RatSquare(q) == Rat(q[1] * q[1], q[2] * q[2])

RECURSIVE TwoLink_Loop(_, _, _, _)
TwoLink_Loop(lp, d, n, t) ==
    IF t = 0 THEN Floats(Sep_Step1(lp, n), n)
    ELSE LET prev == TwoLink_Loop(lp, d, n, t - 1)
             a == (t - 1) \div n
             b == (t - 1) % n
             v == RatSquare(TwoLink_av_sp_dist(lp, d, a, b, n))
         IN  IF a > b /\ prev[a, b] = Rat(0, 1)
             THEN [prev EXCEPT ![a, b] = v, ![b, a] = v]
             ELSE prev

\* The entries are floats: each is kept as an exact fraction.
twolink_spacelike_matrix(lp, d, n) == TwoLink_Loop(lp, Sep_Dmax(d, lp, n), n, n * n)

\* dmax of the estimators: None or a positive integer.
SepDmaxArgs == {None} \cup {Some(x) : x \in 1 .. MaxDmax}

KArgs == {None} \cup {Some(x) : x \in 0 .. MaxK}

Naive_Call(impl, d, kk) ==
    /\ pc = "idle"
    /\ fn' = impl
    /\ call' = [call EXCEPT !.dmax = d, !.k = kk]
    /\ dmax' = Some(Sep_Dmax(d, LP, N))
    /\ ds2' = Floats(naive_spacelike_matrix(impl, LP, d, kk, N), N)
    /\ pc' = "returned"
    /\ UNCHANGED <<N, A_, i, B, LP, A_0, A, A_old, A_diff, max_path, red, execs>>

TwoLink_Call(d) ==
    /\ pc = "idle"
    /\ fn' = "dagsep.twolink_spacelike_matrix"
    /\ call' = [call EXCEPT !.dmax = d]
    /\ dmax' = Some(Sep_Dmax(d, LP, N))
    /\ ds2' = twolink_spacelike_matrix(LP, d, N)
    /\ pc' = "returned"
    /\ UNCHANGED <<N, A_, i, B, LP, A_0, A, A_old, A_diff, max_path, red, execs>>

Sep_Next ==
    \/ \E d \in SepDmaxArgs : Naive_Call("dagsep.naive_spacelike_matrix", d, None)
    \/ \E d \in SepDmaxArgs, kk \in KArgs :
            Naive_Call("matrix_utils.naive_spacelike_matrix", d, kk)
    \/ \E d \in SepDmaxArgs : TwoLink_Call(d)

\* The estimators on LP = longest_path_matrix(A) of the acyclic inputs.
InitSep ==
    \E in \in DagInputs :
        IdleWith(in, longest_path_matrix("dagsep.longest_path_matrix", in[2], None, in[1]))
SpecSep == InitSep /\ [][Sep_Next]_vars

-----------------------------------------------------------------------------
(* Graph notions the properties are stated in *)

SetMax(S) == CHOOSE x \in S : \A y \in S : y <= x

Range(w) == {w[t] : t \in 1 .. Len(w)}

\* The directed paths of at most m edges, as node sequences in path order:
\* X[v, u] = 1 is the edge from u to v.
RECURSIVE PathsUpTo(_, _, _)
PathsUpTo(X, n, m) ==
    IF m = 0 THEN {}
    ELSE IF m = 1 THEN {<<p[2], p[1]>> : p \in {q \in Pairs(n) : X[q] = 1 /\ q[1] # q[2]}}
    ELSE LET S == PathsUpTo(X, n, m - 1)
         IN  S \cup UNION {{Append(w, v) : v \in {u \in Idx(n) \ Range(w) : X[u, w[Len(w)]] = 1}} : w \in S}

\* The number of edges of the longest directed path from j to i, 0 if none.
TrueLP(X, n) ==
    LET S == PathsUpTo(X, n, n - 1)
    IN  [p \in Pairs(n) |->
            SetMax({0} \cup {Len(w) - 1 : w \in {u \in S : u[1] = p[2] /\ u[Len(u)] = p[1]}})]

\* No directed cycle: no self loop, and no path whose end has an edge to its start.
Acyclic(X, n) ==
    /\ \A v \in Idx(n) : X[v, v] = 0
    /\ \A w \in PathsUpTo(X, n, n - 1) : X[w[1], w[Len(w)]] = 0

\* A single directed chain through all n nodes.
IsChain(X, n) == Acyclic(X, n) /\ MatSum(X, n) = n - 1 /\ MatMax(TrueLP(X, n), n) = n - 1

LPM_Returned == pc = "returned" /\ fn \in LPM_Impls

-----------------------------------------------------------------------------
(* Properties of longest_path_matrix *)

\* C1: for an acyclic A and dmax left at None, both implementations return
\* LP with LP[i,j] = the number of edges of the longest directed path from j
\* to i, and 0 where there is none.
C1_LongestPath ==
    (LPM_Returned /\ call.dmax = None /\ Acyclic(A_, N)) => LP = TrueLP(A_, N)

\* A returned call where some pair is joined both by an edge and by a longer path.
C1_Witness ==
    /\ LPM_Returned /\ call.dmax = None /\ Acyclic(A_, N)
    /\ \E p \in Pairs(N) : A_[p] = 1 /\ LP[p] >= 2

\* C2 (as claimed): on a chain of N nodes and a cutoff 1 <= k < N-1, every
\* pair whose longest path exceeds k gets exactly k, every other pair its
\* true length.
C2_CutoffCapsAtK ==
    (/\ LPM_Returned /\ IsChain(A_, N) /\ call.dmax # None
     /\ 1 <= call.dmax[1] /\ call.dmax[1] < N - 1)
    => \A p \in Pairs(N) : LP[p] = Min(TrueLP(A_, N)[p], call.dmax[1])

\* A = [[0,0],[1,0]]
TwoNode == [p \in Pairs(N) |-> IF p = <<1, 0>> THEN 1 ELSE 0]
\* longest_path_matrix(A) has returned on A = [[0,0],[1,0]].
C3_Case == LPM_Returned /\ call.dmax = None /\ N = 2 /\ A_ = TwoNode

\* C3 (as claimed): for A = [[0,0],[1,0]] the result has LP[0,1] = 1 and
\* every other entry 0.
C3_Original ==
    C3_Case => \A p \in Pairs(N) : LP[p] = IF p = <<0, 1>> THEN 1 ELSE 0

\* C3 (amended): for A = [[0,0],[1,0]] the result has LP[1,0] = 1 and every
\* other entry 0.
C3_Amended ==
    C3_Case => \A p \in Pairs(N) : LP[p] = IF p = <<1, 0>> THEN 1 ELSE 0

C3_Witness == C3_Case /\ fn = "dagsep.longest_path_matrix" /\ LP[1, 0] = 1

\* C10 (as claimed): on every 0/1 input and every dmax the loop is left
\* after a number of executions of its body bounded by N or by dmax.
C10_LoopCapped ==
    fn \in LPM_Impls =>
        execs <= (IF call.dmax = None THEN N ELSE Max(N, call.dmax[1]))

-----------------------------------------------------------------------------
(* Properties of transitive_completion and transitive_reduction *)

\* X[i,j] = 1 exactly when a directed walk of one or more edges leads from
\* j to i.
TrueClosure(X, n) ==
    LET S == PathsUpTo(X, n, n - 1)
    IN  [p \in Pairs(n) |->
            IF p[1] # p[2]
            THEN IF \E w \in S : w[1] = p[2] /\ w[Len(w)] = p[1] THEN 1 ELSE 0
            ELSE IF X[p] = 1 \/ \E w \in S : w[1] = p[1] /\ X[p[1], w[Len(w)]] = 1
                 THEN 1 ELSE 0]

\* The covering relation of X: X[i,j] = 1 with no k between.
Hasse(X, n) ==
    [p \in Pairs(n) |->
        IF X[p] = 1 /\ ~\E c \in Idx(n) : X[p[1], c] = 1 /\ X[c, p[2]] = 1
        THEN 1 ELSE 0]

\* C8: on every 0/1 input, cyclic or not, the loop body of
\* transitive_completion runs at most N times, and a value is returned
\* only when it is a fixed point of A <- saturate(A*A0 + A0), which is the
\* full closure of the input.
C8_CompletionHalts ==
    fn = "transitive_completion" =>
        /\ execs <= N
        /\ pc = "returned" => (A = TC_Step(A, A_0, N) /\ A = TrueClosure(A_0, N))

\* A cyclic input that needs all N executions of the body.
C8_Witness ==
    /\ fn = "transitive_completion" /\ pc = "returned"
    /\ execs = N /\ N >= 2 /\ ~Acyclic(A_, N)

\* C4: for a transitively closed acyclic A and every cap (None or an
\* integer), transitive_reduction(A, cap) is the covering relation of A and
\* transitive_completion of it is A again.
C4_ReductionThenCompletion ==
    /\ (fn = "transitive_reduction" /\ pc = "returned") => red = Hasse(A_, N)
    /\ (fn = "transitive_completion" /\ pc = "returned") =>
            (A_0 = Hasse(A_, N) /\ A = A_)

\* The round trip is done on a relation that has a non-covering pair, with
\* a cap smaller than N.
C4_Witness ==
    /\ fn = "transitive_completion" /\ pc = "returned"
    /\ A = A_ /\ A_ # red
    /\ call.LP # None /\ Truthy(call.LP) /\ call.LP[1] < N

-----------------------------------------------------------------------------
(* Properties of the separation estimators *)

\* Pairs of distinct nodes with no directed path either way.
Spacelike(a, b) == a # b /\ LP[a, b] = 0 /\ LP[b, a] = 0

\* Nodes with a directed path to both a and b / reachable from both.
CommonPast(a, b) == {z \in Idx(N) : LP[a, z] > 0 /\ LP[b, z] > 0}
CommonFuture(a, b) == {w \in Idx(N) : LP[w, a] > 0 /\ LP[w, b] > 0}

\* The positive longest-path lengths between a member of S and one of T.
Bridges(S, T) ==
    {v \in {LP[w, z] : w \in S, z \in T} \cup {LP[z, w] : w \in S, z \in T} : v > 0}

\* C5 (as claimed): with dmax left at its default, a pair joined by a path
\* gets -(LP[i,j] + LP[j,i])^2 < 0, which is -(LP[i,j])^2 when LP[i,j] > 0,
\* and a spacelike pair gets a strictly positive value, in
\* naive_spacelike_matrix and in twolink_spacelike_matrix.
C5_SignClassifies ==
    (/\ pc = "returned"
     /\ fn \in {"dagsep.naive_spacelike_matrix", "dagsep.twolink_spacelike_matrix"}
     /\ call.dmax = None)
    => \A a, b \in Idx(N) :
          /\ (a # b /\ (LP[a, b] > 0 \/ LP[b, a] > 0)) =>
                /\ ds2[a, b] = Rat(-((LP[a, b] + LP[b, a]) * (LP[a, b] + LP[b, a])), 1)
                /\ ds2[a, b][1] < 0
                /\ LP[a, b] > 0 => ds2[a, b] = Rat(-(LP[a, b] * LP[a, b]), 1)
          /\ Spacelike(a, b) => ds2[a, b][1] > 0

Naive_Unrestricted == pc = "returned" /\ fn \in Naive_Impls /\ ~Truthy(call.k)

\* The 4-node diamond: source 0, middle nodes 1 and 2, sink 3.
Diamond ==
    [p \in Pairs(N) |-> IF p \in {<<1, 0>>, <<2, 0>>, <<3, 1>>, <<3, 2>>} THEN 1 ELSE 0]

\* C6 (as claimed): in naive_spacelike_matrix a spacelike pair whose common
\* past and common future are both non-empty gets the square of the least
\* positive longest-path length between the two sets; dmax is used only
\* when one of the sets is empty, and then the value is dmax^2.
C6_Original ==
    Naive_Unrestricted =>
        \A a, b \in Idx(N) : Spacelike(a, b) =>
            LET S == CommonPast(a, b)
                T == CommonFuture(a, b)
                d == IF S # {} /\ T # {} THEN SetMin(Bridges(S, T)) ELSE dmax[1]
            IN  ds2[a, b] = Rat(d * d, 1) /\ ds2[b, a] = Rat(d * d, 1)

\* C6 (amended): the value is the square of the smaller of dmax and the
\* least positive longest-path length between the two sets when both are
\* non-empty, and dmax^2 when one is empty; with dmax left at its default
\* the two middle nodes of the 4-node diamond get 2^2 = 4.
C6_Amended ==
    Naive_Unrestricted =>
        /\ \A a, b \in Idx(N) : Spacelike(a, b) =>
              LET S == CommonPast(a, b)
                  T == CommonFuture(a, b)
                  d == IF S # {} /\ T # {}
                       THEN Min(dmax[1], SetMin(Bridges(S, T))) ELSE dmax[1]
              IN  ds2[a, b] = Rat(d * d, 1) /\ ds2[b, a] = Rat(d * d, 1)
        /\ (N = 4 /\ A_ = Diamond /\ call.dmax = None) => (ds2[1, 2] = Rat(4, 1) /\ ds2[2, 1] = Rat(4, 1))

\* A spacelike pair with both sets non-empty and a dmax below every bridge.
C6_Witness ==
    /\ Naive_Unrestricted
    /\ \E a, b \in Idx(N) :
          /\ Spacelike(a, b)
          /\ CommonPast(a, b) # {} /\ CommonFuture(a, b) # {}
          /\ dmax[1] >= 1
          /\ dmax[1] < SetMin(Bridges(CommonPast(a, b), CommonFuture(a, b)))
          /\ ds2[a, b] = Rat(dmax[1] * dmax[1], 1)

\* C7 (as claimed): in twolink_spacelike_matrix, a spacelike pair with a
\* common direct successor and a common direct predecessor, and a dmax no
\* smaller than the bridging lengths, gets the square of the average, over
\* the common direct successors w, of the least LP[w,z] over the common
\* direct predecessors z.
C7_TwoLinkBridging ==
    (pc = "returned" /\ fn = "dagsep.twolink_spacelike_matrix") =>
        \A a, b \in Idx(N) :
            LET F == {x \in Idx(N) : LP[x, a] = 1 /\ LP[x, b] = 1}
                P == {z \in Idx(N) : LP[a, z] = 1 /\ LP[b, z] = 1}
                c == SetSum({<<w, SetMin({LP[w, z] : z \in P})>> : w \in F})
            IN  (/\ Spacelike(a, b) /\ F # {} /\ P # {}
                 /\ \A w \in F, z \in P : LP[w, z] <= dmax[1])
                => /\ ds2[a, b] = RatSquare(Rat(c, Cardinality(F)))
                   /\ ds2[b, a] = ds2[a, b]

\* C9: with a landmark count k >= 1, matrix_utils' naive_spacelike_matrix
\* agrees with the unrestricted call on every entry with min(i,j) < k and
\* leaves every other entry at -(LP[i,j] + LP[j,i])^2; for k >= N it
\* returns what the unrestricted call and dagsep's function return.
C9_Landmarks ==
    (pc = "returned" /\ fn = "matrix_utils.naive_spacelike_matrix" /\ Truthy(call.k)) =>
        LET full == naive_spacelike_matrix(fn, LP, call.dmax, None, N)
            other == naive_spacelike_matrix("dagsep.naive_spacelike_matrix",
                                            LP, call.dmax, None, N)
            step1 == Sep_Step1(LP, N)
        IN  /\ \A p \in Pairs(N) :
                  ds2[p] = Rat(IF Min(p[1], p[2]) < call.k[1]
                               THEN full[p] ELSE step1[p], 1)
            /\ call.k[1] >= N => (ds2 = Floats(full, N) /\ ds2 = Floats(other, N))

\* A restricted call that fills one spacelike pair and leaves another.
C9_Witness ==
    /\ pc = "returned" /\ fn = "matrix_utils.naive_spacelike_matrix" /\ Truthy(call.k)
    /\ \E p, q \in Pairs(N) :
          /\ Spacelike(p[1], p[2]) /\ Min(p[1], p[2]) >= call.k[1] /\ ds2[p] = Rat(0, 1)
          /\ naive_spacelike_matrix(fn, LP, call.dmax, None, N)[p] > 0
          /\ Spacelike(q[1], q[2]) /\ Min(q[1], q[2]) < call.k[1] /\ ds2[q][1] > 0

=============================================================================
